---- MODULE Spec2Model ----
(***************************************************************************)
(* Model of chess_support_mcp/server.py: one GameState (a chess.Board and  *)
(* the list san_history) behind the tools create_or_reset_game,            *)
(* get_status, add_move, is_legal, list_moves, list_moves_detailed,        *)
(* last_moves, last_moves_detailed and board_ascii.                        *)
(*                                                                         *)
(* Strings that the code inspects character by character (move            *)
(* descriptors, notation, square names) are sequences of one-character     *)
(* strings.  Python's None is the empty sequence None and a present value  *)
(* x is Some(x) = <<x>>, except for squares and piece types, where None is *)
(* NoSquare and NoPiece.                                                   *)
(***************************************************************************)
EXTENDS Integers, Sequences, FiniteSets, TLC

(* ---------------------------------------------------------------------- *)
(* Bounds of the model                                                     *)
(* ---------------------------------------------------------------------- *)

\* Accepted moves per game: add_move stops being offered a legal move here.
MaxPly == 7

\* last_moves / last_moves_detailed are called with n in -1 .. MaxN.
MaxN == 3

\* Accepted moves per game in the games that are played to their end.
MaxEndingPly == 17

(* ---------------------------------------------------------------------- *)
(* Values of the chess library the code works with                         *)
(* ---------------------------------------------------------------------- *)

None == <<>>
Some(x) == <<x>>

WHITE == TRUE
BLACK == FALSE

NoPiece == 0
PAWN == 1
KNIGHT == 2
BISHOP == 3
ROOK == 4
QUEEN == 5
KING == 6

NoSquare == 0 - 1

FILE_NAMES == <<"a", "b", "c", "d", "e", "f", "g", "h">>
RANK_NAMES == <<"1", "2", "3", "4", "5", "6", "7", "8">>

\* PIECE_SYMBOLS[1..6]; index 0 of the library's list is None.
PIECE_SYMBOLS == <<"p", "n", "b", "r", "q", "k">>
UPPER_SYMBOLS == <<"P", "N", "B", "R", "Q", "K">>

Squares == 0 .. 63

square(file, rank) == rank * 8 + file
square_file(sq) == sq % 8
square_rank(sq) == sq \div 8

A1 == square(0, 0)
C1 == square(2, 0)
D1 == square(3, 0)
E1 == square(4, 0)
F1 == square(5, 0)
G1 == square(6, 0)
H1 == square(7, 0)
A8 == square(0, 7)
C8 == square(2, 7)
D8 == square(3, 7)
E8 == square(4, 7)
F8 == square(5, 7)
G8 == square(6, 7)
H8 == square(7, 7)

Abs(x) == IF x < 0 THEN 0 - x ELSE x
Sign(x) == IF x < 0 THEN 0 - 1 ELSE IF x > 0 THEN 1 ELSE 0
Max(a, b) == IF a >= b THEN a ELSE b
Min(a, b) == IF a <= b THEN a ELSE b

\* list.index(x): the 1-based position of x in seq, 0 when absent (ValueError).
IndexOf(seq, x) ==
    IF \E i \in 1 .. Len(seq) : seq[i] = x
    THEN CHOOSE i \in 1 .. Len(seq) : seq[i] = x /\ \A j \in 1 .. (i - 1) : seq[j] # x
    ELSE 0

\* str.lower() / str.upper() of one character.
lower(c) == IF IndexOf(UPPER_SYMBOLS, c) > 0 THEN PIECE_SYMBOLS[IndexOf(UPPER_SYMBOLS, c)] ELSE c
upper(c) == IF IndexOf(PIECE_SYMBOLS, c) > 0 THEN UPPER_SYMBOLS[IndexOf(PIECE_SYMBOLS, c)] ELSE c

\* SQUARE_NAMES[sq]
SQUARE_NAME(sq) == <<FILE_NAMES[square_file(sq) + 1], RANK_NAMES[square_rank(sq) + 1]>>

\* SQUARE_NAMES.index(name): the square, NoSquare when name is no square name.
SQUARE_INDEX(name) ==
    IF Len(name) = 2 /\ IndexOf(FILE_NAMES, name[1]) > 0 /\ IndexOf(RANK_NAMES, name[2]) > 0
    THEN square(IndexOf(FILE_NAMES, name[1]) - 1, IndexOf(RANK_NAMES, name[2]) - 1)
    ELSE NoSquare

(* ---------------------------------------------------------------------- *)
(* chess.Move                                                              *)
(* ---------------------------------------------------------------------- *)

Move(from_square, to_square, promotion, drop) ==
    [from_square |-> from_square, to_square |-> to_square,
     promotion |-> promotion, drop |-> drop]

NullMove == Move(0, 0, NoPiece, NoPiece)

\* Move.__bool__
MoveBool(m) ==
    m.from_square # 0 \/ m.to_square # 0 \/ m.promotion # NoPiece \/ m.drop # NoPiece

\* The exception text of a failed parse: the message followed by the
\* descriptor it quotes.
InvalidMoveError(msg, uci) == [ok |-> FALSE, error |-> <<msg>> \o uci]
Parsed(m) == [ok |-> TRUE, move |-> m]

\* chess.Move.from_uci(uci)
from_uci(uci) ==
    IF uci = <<"0", "0", "0", "0">> THEN Parsed(NullMove)
    ELSE IF Len(uci) = 4 /\ uci[2] = "@" THEN
        LET drop == IndexOf(PIECE_SYMBOLS, lower(uci[1]))
            sq == SQUARE_INDEX(SubSeq(uci, 3, 4))
        IN  IF drop = 0 \/ sq = NoSquare
            THEN InvalidMoveError("invalid uci: ", uci)
            ELSE Parsed(Move(sq, sq, NoPiece, drop))
    ELSE IF 4 <= Len(uci) /\ Len(uci) <= 5 THEN
        LET from_square == SQUARE_INDEX(SubSeq(uci, 1, 2))
            to_square == SQUARE_INDEX(SubSeq(uci, 3, 4))
            promotion == IF Len(uci) = 5 THEN IndexOf(PIECE_SYMBOLS, uci[5]) ELSE NoPiece
        IN  IF from_square = NoSquare \/ to_square = NoSquare
               \/ (Len(uci) = 5 /\ promotion = 0)
            THEN InvalidMoveError("invalid uci: ", uci)
            ELSE IF from_square = to_square
            THEN InvalidMoveError("invalid uci (use 0000 for null moves): ", uci)
            ELSE Parsed(Move(from_square, to_square, promotion, NoPiece))
    ELSE InvalidMoveError("expected uci string to be of length 4 or 5: ", uci)

\* Move.uci()
MoveUci(m) ==
    IF m.drop # NoPiece
    THEN <<UPPER_SYMBOLS[m.drop], "@">> \o SQUARE_NAME(m.to_square)
    ELSE IF m.promotion # NoPiece
    THEN SQUARE_NAME(m.from_square) \o SQUARE_NAME(m.to_square) \o <<PIECE_SYMBOLS[m.promotion]>>
    ELSE IF MoveBool(m)
    THEN SQUARE_NAME(m.from_square) \o SQUARE_NAME(m.to_square)
    ELSE <<"0", "0", "0", "0">>

(* ---------------------------------------------------------------------- *)
(* chess.Board: the position                                               *)
(*                                                                         *)
(* pieces[sq] is 0 for an empty square, the piece type for a white piece   *)
(* and its negation for a black piece.  castling_rights is the set of rook *)
(* squares and ep_square is NoSquare when unset.  legal_moves is the set   *)
(* of moves m for which `m in board.legal_moves` holds; it is a function   *)
(* of the position and is computed whenever the position changes.  stack   *)
(* has one entry per pushed move: what is_repetition() finds when it pops  *)
(* that move (the library keeps the whole earlier position in _stack and   *)
(* recomputes it).                                                         *)
(* ---------------------------------------------------------------------- *)

BackRow == <<ROOK, KNIGHT, BISHOP, QUEEN, KING, BISHOP, KNIGHT, ROOK>>

StartingPieces ==
    [sq \in Squares |->
        IF square_rank(sq) = 0 THEN BackRow[square_file(sq) + 1]
        ELSE IF square_rank(sq) = 1 THEN PAWN
        ELSE IF square_rank(sq) = 6 THEN 0 - PAWN
        ELSE IF square_rank(sq) = 7 THEN 0 - BackRow[square_file(sq) + 1]
        ELSE NoPiece]

piece_type(p) == Abs(p)
piece_color(p) == p > 0
Colored(type, color) == IF color = WHITE THEN type ELSE 0 - type
OwnedBy(pieces, sq, color) == IF color = WHITE THEN pieces[sq] > 0 ELSE pieces[sq] < 0

\* Piece.symbol()
piece_symbol(p) == IF p > 0 THEN UPPER_SYMBOLS[p] ELSE PIECE_SYMBOLS[0 - p]

\* s and t lie n > 0 steps of (sf, sr) apart and the squares strictly between
\* them are empty.
ClearLine(pieces, s, t, sf, sr, n) ==
    /\ t = s + n * (sf + 8 * sr)
    /\ \A j \in 1 .. (n - 1) : pieces[s + j * (sf + 8 * sr)] = NoPiece

\* Board.attacks_mask(s) contains t, for a piece of the given type and color
\* on s, with t - s = (df, dr) in files and ranks
AttacksBy(pieces, type, color, s, t, df, dr) ==
    CASE type = PAWN -> Abs(df) = 1 /\ dr = (IF color = WHITE THEN 1 ELSE 0 - 1)
      [] type = KNIGHT -> Abs(df) * Abs(dr) = 2
      [] type = KING -> Abs(df) <= 1 /\ Abs(dr) <= 1 /\ s # t
      [] type = BISHOP ->
            Abs(df) = Abs(dr) /\ df # 0 /\ ClearLine(pieces, s, t, Sign(df), Sign(dr), Abs(df))
      [] type = ROOK ->
            (df = 0) # (dr = 0) /\ ClearLine(pieces, s, t, Sign(df), Sign(dr), Abs(df + dr))
      [] type = QUEEN ->
            \/ Abs(df) = Abs(dr) /\ df # 0 /\ ClearLine(pieces, s, t, Sign(df), Sign(dr), Abs(df))
            \/ (df = 0) # (dr = 0) /\ ClearLine(pieces, s, t, Sign(df), Sign(dr), Abs(df + dr))
      [] OTHER -> FALSE

\* Board.attacks_mask(s) contains t
Attacks(pieces, s, t) ==
    AttacksBy(pieces, piece_type(pieces[s]), piece_color(pieces[s]), s, t,
              square_file(t) - square_file(s), square_rank(t) - square_rank(s))

\* Board.is_attacked_by(color, t) on a piece placement
AttackedBy(pieces, color, t) ==
    \E s \in Squares : OwnedBy(pieces, s, color) /\ Attacks(pieces, s, t)

\* Board.king(color); NoSquare when that side has no king
KingSquare(pieces, color) ==
    IF \E s \in Squares : pieces[s] = Colored(KING, color)
    THEN CHOOSE s \in Squares : pieces[s] = Colored(KING, color)
    ELSE NoSquare

\* The king of the given color stands on a square, and it is attacked.
KingAttacked(pieces, color) ==
    \E k \in Squares : pieces[k] = Colored(KING, color) /\ AttackedBy(pieces, ~color, k)

\* Board.is_check()
is_check(b) == KingAttacked(b.pieces, b.turn)

BackRank(color) == IF color = WHITE THEN 0 ELSE 7

\* Board.clean_castling_rights() of a standard game
clean_castling_rights(b) ==
    {r \in b.castling_rights \cap {A1, H1, A8, H8} :
        /\ b.pieces[r] = Colored(ROOK, square_rank(r) = 0)
        /\ b.pieces[IF square_rank(r) = 0 THEN E1 ELSE E8] = Colored(KING, square_rank(r) = 0)}

\* Board._to_chess960(move): castling as king-takes-rook
to_chess960(b, m) ==
    IF m.from_square = E1 /\ piece_type(b.pieces[E1]) = KING THEN
        IF m.to_square = G1 /\ piece_type(b.pieces[G1]) # ROOK THEN Move(E1, H1, NoPiece, NoPiece)
        ELSE IF m.to_square = C1 /\ piece_type(b.pieces[C1]) # ROOK THEN Move(E1, A1, NoPiece, NoPiece)
        ELSE m
    ELSE IF m.from_square = E8 /\ piece_type(b.pieces[E8]) = KING THEN
        IF m.to_square = G8 /\ piece_type(b.pieces[G8]) # ROOK THEN Move(E8, H8, NoPiece, NoPiece)
        ELSE IF m.to_square = C8 /\ piece_type(b.pieces[C8]) # ROOK THEN Move(E8, A8, NoPiece, NoPiece)
        ELSE m
    ELSE m

\* _from_chess960() with the fault of leaving castling in king-takes-rook
\* form: the property UciStoredInStandardForm must detect it.
from_chess960_unchanged(b, m) == m

\* Board._from_chess960(chess960=False, ...): castling as a two-square king move
from_chess960(b, m) ==
    IF m.promotion = NoPiece /\ m.drop = NoPiece
       /\ m.from_square = E1 /\ piece_type(b.pieces[E1]) = KING /\ m.to_square \in {H1, A1}
    THEN Move(E1, IF m.to_square = H1 THEN G1 ELSE C1, NoPiece, NoPiece)
    ELSE IF m.promotion = NoPiece /\ m.drop = NoPiece
       /\ m.from_square = E8 /\ piece_type(b.pieces[E8]) = KING /\ m.to_square \in {H8, A8}
    THEN Move(E8, IF m.to_square = H8 THEN G8 ELSE C8, NoPiece, NoPiece)
    ELSE m

\* Board.is_castling(move)
is_castling(b, m) ==
    /\ piece_type(b.pieces[m.from_square]) = KING
    /\ \/ Abs(square_file(m.from_square) - square_file(m.to_square)) > 1
       \/ b.pieces[m.to_square] = Colored(ROOK, b.turn)

\* Board.is_en_passant(move)
is_en_passant(b, m) ==
    /\ b.ep_square = m.to_square
    /\ piece_type(b.pieces[m.from_square]) = PAWN
    /\ Abs(m.to_square - m.from_square) \in {7, 9}
    /\ b.pieces[m.to_square] = NoPiece

\* Board.is_capture(move)
is_capture(b, m) ==
    \/ OwnedBy(b.pieces, m.from_square, ~b.turn)
    \/ OwnedBy(b.pieces, m.to_square, ~b.turn)
    \/ is_en_passant(b, m)

\* Board.is_zeroing(move)
is_zeroing(b, m) ==
    \/ piece_type(b.pieces[m.from_square]) = PAWN
    \/ piece_type(b.pieces[m.to_square]) = PAWN
    \/ OwnedBy(b.pieces, m.from_square, ~b.turn)
    \/ OwnedBy(b.pieces, m.to_square, ~b.turn)
    \/ m.drop = PAWN

\* The piece placement Board.push(move) leaves: a castling move (the king
\* moves onto its own rook) puts king and rook on their castled squares, any
\* other move puts the moved or promoted piece on the target square and
\* removes a pawn captured en passant from capture_square.
Placement(pieces, turn, m, placed, castling, capture_square) ==
    [sq \in Squares |->
        IF castling THEN
            IF sq = m.from_square + (IF m.to_square < m.from_square THEN 0 - 2 ELSE 2)
            THEN Colored(KING, turn)
            ELSE IF sq = m.from_square + (IF m.to_square < m.from_square THEN 0 - 1 ELSE 1)
            THEN Colored(ROOK, turn)
            ELSE IF sq = m.from_square \/ sq = m.to_square THEN NoPiece
            ELSE pieces[sq]
        ELSE
            IF sq = m.to_square THEN Colored(placed, turn)
            ELSE IF sq = m.from_square \/ sq = capture_square THEN NoPiece
            ELSE pieces[sq]]

\* The piece placement Board.push(move) leaves, for a move in king-takes-rook form
PushPieces(b, m) ==
    Placement(b.pieces, b.turn, m,
              IF m.promotion # NoPiece THEN m.promotion ELSE piece_type(b.pieces[m.from_square]),
              /\ m.promotion = NoPiece
              /\ piece_type(b.pieces[m.from_square]) = KING
              /\ OwnedBy(b.pieces, m.to_square, b.turn),
              IF is_en_passant(b, m)
              THEN b.ep_square + (IF b.turn = WHITE THEN 0 - 8 ELSE 8)
              ELSE NoSquare)

(* ---------------------------------------------------------------------- *)
(* chess.Board: legal moves                                                *)
(* ---------------------------------------------------------------------- *)

\* between(s, t) on one rank
BetweenOnRank(s, t) == {x \in Squares : Min(s, t) < x /\ x < Max(s, t)}

\* One candidate of Board.generate_castling_moves(): castling with the rook on
\* rook_sq is possible now.
CastlingCandidate(b, rook_sq) ==
    LET king == IF b.turn = WHITE THEN E1 ELSE E8
        a_side == rook_sq < king
        king_to == IF a_side THEN king - 2 ELSE king + 2
        rook_to == IF a_side THEN king - 1 ELSE king + 1
        king_path == BetweenOnRank(king, king_to)
        rook_path == BetweenOnRank(rook_sq, rook_to)
        no_king == [b.pieces EXCEPT ![king] = NoPiece]
        castled == [b.pieces EXCEPT ![king] = NoPiece, ![rook_sq] = NoPiece,
                                    ![rook_to] = Colored(ROOK, b.turn)]
    IN  /\ rook_sq \in clean_castling_rights(b)
        /\ square_rank(rook_sq) = BackRank(b.turn)
        /\ \A x \in (king_path \cup rook_path \cup {king_to, rook_to}) \ {king, rook_sq} :
                b.pieces[x] = NoPiece
        /\ \A x \in king_path \cup {king} : ~AttackedBy(no_king, ~b.turn, x)
        /\ ~AttackedBy(castled, ~b.turn, king_to)

\* Board.generate_castling_moves(), in standard (two-square king move) form
generate_castling_moves(b) ==
    {Move(IF b.turn = WHITE THEN E1 ELSE E8,
          IF r \in {H1, H8} THEN r - 1 ELSE r + 2, NoPiece, NoPiece) :
        r \in {r \in {A1, H1, A8, H8} : CastlingCandidate(b, r)}}

\* move in Board.generate_pseudo_legal_moves(from_mask, to_mask), for a pawn on
\* move.from_square
PawnPseudoLegal(b, m) ==
    LET f == m.from_square
        t == m.to_square
        up == IF b.turn = WHITE THEN 8 ELSE 0 - 8
        promoting == square_rank(t) \in {0, 7}
        promotion_ok == IF promoting THEN m.promotion \in {QUEEN, ROOK, BISHOP, KNIGHT}
                        ELSE m.promotion = NoPiece
        capture == Attacks(b.pieces, f, t) /\ OwnedBy(b.pieces, t, ~b.turn)
        single == t = f + up /\ b.pieces[t] = NoPiece
        double == /\ t = f + 2 * up
                  /\ square_rank(f) = (IF b.turn = WHITE THEN 1 ELSE 6)
                  /\ b.pieces[f + up] = NoPiece
                  /\ b.pieces[t] = NoPiece
        en_passant == /\ b.ep_square # NoSquare
                      /\ t = b.ep_square
                      /\ b.pieces[t] = NoPiece
                      /\ square_rank(f) = (IF b.turn = WHITE THEN 4 ELSE 3)
                      /\ Attacks(b.pieces, f, t)
    IN  \/ (capture \/ single) /\ promotion_ok
        \/ (double \/ en_passant) /\ m.promotion = NoPiece

\* Board.is_pseudo_legal(move)
is_pseudo_legal(b, m) ==
    LET type == piece_type(b.pieces[m.from_square])
    IN  /\ MoveBool(m)
        /\ m.drop = NoPiece
        /\ type # NoPiece
        /\ OwnedBy(b.pieces, m.from_square, b.turn)
        /\ (m.promotion # NoPiece =>
                type = PAWN /\ square_rank(m.to_square) = (IF b.turn = WHITE THEN 7 ELSE 0))
        /\ \/ type = KING /\ from_chess960(b, Move(m.from_square, m.to_square, NoPiece, NoPiece))
                                \in generate_castling_moves(b)
           \/ /\ ~OwnedBy(b.pieces, m.to_square, b.turn)
              /\ IF type = PAWN THEN PawnPseudoLegal(b, m)
                 ELSE Attacks(b.pieces, m.from_square, m.to_square)

\* Board.is_into_check(move), for a pseudo-legal move: castling was checked for
\* safety when generated, any other move must not leave the own king attacked.
is_into_check(b, m) ==
    IF is_castling(b, m) THEN FALSE
    ELSE LET after == PushPieces(b, m)
             king == KingSquare(after, b.turn)
         IN  king # NoSquare /\ AttackedBy(after, ~b.turn, king)

\* move in Board.legal_moves, that is Board.is_legal(move)
is_legal(b, m) == is_pseudo_legal(b, m) /\ ~is_into_check(b, m)

\* The squares a piece on f could move to on an empty board, and for a king
\* the squares of its rank: the only candidates for a move from f.
Reach(b, f) ==
    LET type == piece_type(b.pieces[f])
    IN  {t \in Squares \ {f} :
            LET df == Abs(square_file(t) - square_file(f))
                dr == Abs(square_rank(t) - square_rank(f))
            IN  CASE type = PAWN -> df <= 1 /\ dr \in {1, 2}
                  [] type = KNIGHT -> {df, dr} = {1, 2}
                  [] type = KING -> (df <= 1 /\ dr <= 1) \/ dr = 0
                  [] type = BISHOP -> df = dr
                  [] type = ROOK -> df = 0 \/ dr = 0
                  [] OTHER -> df = dr \/ df = 0 \/ dr = 0}

\* The promotion pieces a move from f to t can name
Promotions(b, f, t) ==
    IF piece_type(b.pieces[f]) = PAWN /\ square_rank(t) \in {0, 7}
    THEN {QUEEN, ROOK, BISHOP, KNIGHT}
    ELSE {NoPiece}

\* Board.legal_moves as the set of moves m with `m in board.legal_moves`
generate_legal_moves(b) ==
    UNION {UNION {{m \in {Move(f, t, p, NoPiece) : p \in Promotions(b, f, t)} : is_legal(b, m)} :
                     t \in Reach(b, f)} :
              f \in {f \in Squares : OwnedBy(b.pieces, f, b.turn)}}

\* The position b with its legal moves
WithLegalMoves(b) == [b EXCEPT !.legal_moves = generate_legal_moves(b)]

\* chess.Board(): the starting position
StartingBoard ==
    WithLegalMoves([pieces |-> StartingPieces, turn |-> WHITE,
                    castling_rights |-> {A1, H1, A8, H8}, ep_square |-> NoSquare,
                    halfmove_clock |-> 0, fullmove_number |-> 1,
                    move_stack |-> <<>>, stack |-> <<>>, legal_moves |-> {}])

\* any(Board.generate_legal_moves())
HasLegalMove(b) == b.legal_moves # {}

\* Board.has_legal_en_passant()
has_legal_en_passant(b) ==
    b.ep_square # NoSquare /\ \E m \in b.legal_moves : is_en_passant(b, m)

\* Board.is_checkmate()
is_checkmate(b) == is_check(b) /\ ~HasLegalMove(b)

\* Board._transposition_key()
transposition_key(b) ==
    <<b.pieces, b.turn, clean_castling_rights(b),
      IF has_legal_en_passant(b) THEN b.ep_square ELSE NoSquare>>

\* Board._reduces_castling_rights(move)
reduces_castling_rights(b, m) ==
    LET cr == clean_castling_rights(b)
    IN  \/ {m.from_square, m.to_square} \cap cr # {}
        \/ /\ \E r \in cr : square_rank(r) = 0
           /\ \E x \in {m.from_square, m.to_square} : b.pieces[x] = KING
        \/ /\ \E r \in cr : square_rank(r) = 7
           /\ \E x \in {m.from_square, m.to_square} : b.pieces[x] = 0 - KING

\* Board.is_irreversible(move)
is_irreversible(b, m) ==
    is_zeroing(b, m) \/ reduces_castling_rights(b, m) \/ has_legal_en_passant(b)

\* What is_repetition() finds when it pops move from position b: the key of
\* the position b and whether move is irreversible in it.
StackEntry(b, move) ==
    [key |-> transposition_key(b), irreversible |-> is_irreversible(b, move)]

\* Board.push(move) without the legal moves of the new position, for a move m
\* in king-takes-rook form
PushPosition(b, m) ==
    [b EXCEPT
        !.move_stack = Append(b.move_stack, from_chess960(b, m)),
        !.stack = Append(b.stack, StackEntry(b, from_chess960(b, m))),
        !.turn = ~b.turn,
        !.fullmove_number = IF b.turn = BLACK THEN b.fullmove_number + 1 ELSE b.fullmove_number,
        !.halfmove_clock = IF MoveBool(m) /\ is_zeroing(b, m) THEN 0 ELSE b.halfmove_clock + 1,
        !.castling_rights =
            IF ~MoveBool(m) THEN clean_castling_rights(b)
            ELSE {r \in clean_castling_rights(b) \ {m.from_square, m.to_square} :
                     ~(piece_type(b.pieces[m.from_square]) = KING
                       /\ square_rank(r) = BackRank(b.turn))},
        !.ep_square =
            IF piece_type(b.pieces[m.from_square]) = PAWN /\ m.to_square - m.from_square = 16
               /\ square_rank(m.from_square) = 1
            THEN m.from_square + 8
            ELSE IF piece_type(b.pieces[m.from_square]) = PAWN
                    /\ m.to_square - m.from_square = 0 - 16 /\ square_rank(m.from_square) = 6
            THEN m.from_square - 8
            ELSE NoSquare,
        !.pieces = IF MoveBool(m) THEN PushPieces(b, m) ELSE b.pieces]

\* Board.push(move)
push(b, move) == WithLegalMoves(PushPosition(b, to_chess960(b, move)))

(* ---------------------------------------------------------------------- *)
(* chess.Board: notation                                                   *)
(* ---------------------------------------------------------------------- *)

\* Board._algebraic_without_suffix(move), for a legal move
AlgebraicWithoutSuffix(b, m) ==
    IF ~MoveBool(m) THEN <<"-", "-">>
    ELSE IF is_castling(b, m) THEN
        IF square_file(m.to_square) < square_file(m.from_square)
        THEN <<"O", "-", "O", "-", "O">>
        ELSE <<"O", "-", "O">>
    ELSE
        LET type == piece_type(b.pieces[m.from_square])
            capture == is_capture(b, m)
            others == {f \in Squares \ {m.from_square} :
                          /\ b.pieces[f] = Colored(type, b.turn)
                          /\ Move(f, m.to_square, NoPiece, NoPiece) \in b.legal_moves}
            on_rank == \E f \in others : square_rank(f) = square_rank(m.from_square)
            on_file == \E f \in others : square_file(f) = square_file(m.from_square)
            piece == IF type = PAWN \/ type = NoPiece THEN <<>> ELSE <<UPPER_SYMBOLS[type]>>
            disambiguation ==
                IF type # PAWN /\ others # {} THEN
                    (IF on_rank \/ ~on_file THEN <<FILE_NAMES[square_file(m.from_square) + 1]>>
                     ELSE <<>>)
                    \o (IF on_file THEN <<RANK_NAMES[square_rank(m.from_square) + 1]>> ELSE <<>>)
                ELSE IF type = PAWN /\ capture
                THEN <<FILE_NAMES[square_file(m.from_square) + 1]>>
                ELSE <<>>
        IN  piece \o disambiguation
            \o (IF capture THEN <<"x">> ELSE <<>>)
            \o SQUARE_NAME(m.to_square)
            \o (IF m.promotion # NoPiece THEN <<"=", UPPER_SYMBOLS[m.promotion]>> ELSE <<>>)

\* The check or checkmate suffix of a move that leads to the position after
SanSuffix(after) ==
    IF ~is_check(after) THEN <<>>
    ELSE IF HasLegalMove(after) THEN <<"+">>
    ELSE <<"#">>

\* Board.san(move): the notation of move in position b, with the check or
\* checkmate suffix found by looking one move ahead
san(b, m) ==
    AlgebraicWithoutSuffix(b, m) \o (IF MoveBool(m) THEN SanSuffix(push(b, m)) ELSE <<>>)

(* ---------------------------------------------------------------------- *)
(* chess.Board: end of game, serialisation                                 *)
(* ---------------------------------------------------------------------- *)

PieceCount(pieces, color) == Cardinality({sq \in Squares : OwnedBy(pieces, sq, color)})
HasType(pieces, color, types) == \E sq \in Squares : pieces[sq] \in {Colored(t, color) : t \in types}
DarkSquare(sq) == (square_file(sq) + square_rank(sq)) % 2 = 0

\* Board.has_insufficient_material(color)
has_insufficient_material(b, color) ==
    LET bishops == {sq \in Squares : piece_type(b.pieces[sq]) = BISHOP}
        same_color == (\A sq \in bishops : DarkSquare(sq)) \/ (\A sq \in bishops : ~DarkSquare(sq))
    IN  IF HasType(b.pieces, color, {PAWN, ROOK, QUEEN}) THEN FALSE
        ELSE IF HasType(b.pieces, color, {KNIGHT})
        THEN /\ PieceCount(b.pieces, color) <= 2
             /\ ~HasType(b.pieces, ~color, {PAWN, KNIGHT, BISHOP, ROOK})
        ELSE IF HasType(b.pieces, color, {BISHOP})
        THEN /\ same_color
             /\ ~HasType(b.pieces, WHITE, {PAWN, KNIGHT})
             /\ ~HasType(b.pieces, BLACK, {PAWN, KNIGHT})
        ELSE TRUE

\* Board.is_insufficient_material()
is_insufficient_material(b) ==
    has_insufficient_material(b, WHITE) /\ has_insufficient_material(b, BLACK)

\* Board.is_repetition(count).  The library pops moves until it has popped an
\* irreversible one or seen the current position count - 1 more times; that
\* is, the position occurs count - 1 times among the positions from which
\* only reversible moves were played since.
is_repetition(b, count) ==
    LET len == Len(b.stack)
        irreversible == {i \in 1 .. len : b.stack[i].irreversible}
        first == IF irreversible = {} THEN 1
                 ELSE 1 + CHOOSE i \in irreversible : \A j \in irreversible : j <= i
    IN  /\ len >= count - 1
        /\ Cardinality({i \in first .. len : b.stack[i].key = transposition_key(b)})
             >= count - 1

\* Board.is_seventyfive_moves()
is_seventyfive_moves(b) == b.halfmove_clock >= 150 /\ HasLegalMove(b)

\* Board.is_game_over(): outcome(claim_draw=False) is not None
is_game_over(b) ==
    \/ is_checkmate(b)
    \/ is_insufficient_material(b)
    \/ ~HasLegalMove(b)
    \/ is_seventyfive_moves(b)
    \/ is_repetition(b, 5)

\* Board.result(claim_draw=True) of a position whose game is over: checkmate is
\* decided first, every other ending is a draw.
result(b) ==
    IF is_checkmate(b) THEN (IF b.turn = WHITE THEN "0-1" ELSE "1-0") ELSE "1/2-1/2"

\* Board.board_fen(), the part for the square (file, rank): the symbol of
\* the piece on it, or the length of the run of empty squares that ends on it.
FenSquare(pieces, rank, file) ==
    LET empties == {k \in 1 .. (file + 1) :
                       \A j \in (file + 1 - k) .. file : pieces[square(j, rank)] = NoPiece}
    IN  IF pieces[square(file, rank)] # NoPiece
        THEN <<piece_symbol(pieces[square(file, rank)])>>
        ELSE IF file < 7 /\ pieces[square(file + 1, rank)] = NoPiece THEN <<>>
        ELSE <<RANK_NAMES[Cardinality(empties)]>>

\* Board.board_fen(), one rank
FenRank(pieces, rank) ==
    FenSquare(pieces, rank, 0) \o FenSquare(pieces, rank, 1) \o FenSquare(pieces, rank, 2)
    \o FenSquare(pieces, rank, 3) \o FenSquare(pieces, rank, 4) \o FenSquare(pieces, rank, 5)
    \o FenSquare(pieces, rank, 6) \o FenSquare(pieces, rank, 7)

\* Board.board_fen(): ranks 8 down to 1, separated by "/"
board_fen(pieces) ==
    FenRank(pieces, 7) \o <<"/">> \o FenRank(pieces, 6) \o <<"/">> \o FenRank(pieces, 5)
    \o <<"/">> \o FenRank(pieces, 4) \o <<"/">> \o FenRank(pieces, 3) \o <<"/">>
    \o FenRank(pieces, 2) \o <<"/">> \o FenRank(pieces, 1) \o <<"/">> \o FenRank(pieces, 0)

\* Board.castling_xfen() of a standard game
castling_xfen(b) ==
    LET cr == clean_castling_rights(b)
        flags == (IF H1 \in cr THEN <<"K">> ELSE <<>>) \o (IF A1 \in cr THEN <<"Q">> ELSE <<>>)
                 \o (IF H8 \in cr THEN <<"k">> ELSE <<>>) \o (IF A8 \in cr THEN <<"q">> ELSE <<>>)
    IN  IF flags = <<>> THEN <<"-">> ELSE flags

\* Board.fen().split(): the six whitespace-separated fields; the two counters
\* are kept as numbers.
fen_parts(b) ==
    <<board_fen(b.pieces),
      IF b.turn = WHITE THEN <<"w">> ELSE <<"b">>,
      castling_xfen(b),
      IF has_legal_en_passant(b) THEN SQUARE_NAME(b.ep_square) ELSE <<"-">>,
      b.halfmove_clock,
      b.fullmove_number>>

\* str(board): ranks 8 down to 1, "." for an empty square, squares separated
\* by a blank and ranks by a newline
board_str(pieces) ==
    [i \in 1 .. 127 |->
        LET k == (i - 1) \div 2
            sq == square(k % 8, 7 - (k \div 8))
        IN  IF i % 2 = 0 THEN (IF k % 8 = 7 THEN "\n" ELSE " ")
            ELSE IF pieces[sq] = NoPiece THEN "."
            ELSE piece_symbol(pieces[sq])]

(* ---------------------------------------------------------------------- *)
(* GameState: the methods of server.py, over the fields board, san_history *)
(* ---------------------------------------------------------------------- *)

\* The side name with the fault of swapping the two names: the property
\* PositionParity must detect it.
SideNameSwapped(is_white) == IF is_white THEN "black" ELSE "white"

\* "white" if <white> else "black"
SideName(is_white) == IF is_white THEN "white" ELSE "black"

\* seq[start:] of Python, start counted from 0 and from the end when negative
SliceFrom(seq, start) ==
    LET from == IF start < 0 THEN Max(Len(seq) + start, 0) ELSE Min(start, Len(seq))
    IN  SubSeq(seq, from + 1, Len(seq))

\* reset() with the fault of clearing the board only: the property
\* ResetYieldsInitialGame must detect it.
reset_keeping_history(b, sh) == [board |-> StartingBoard, san_history |-> sh]

\* GameState.reset(): the fields it leaves
reset(b, sh) == [board |-> StartingBoard, san_history |-> <<>>]

\* add_move_uci() with the fault of not recording the notation of an accepted
\* move: the property HistoryLengthInvariant must detect it.
add_move_uci_without_san(b, sh, uci) ==
    LET parsed == from_uci(uci)
    IN  IF ~parsed.ok
        THEN [board |-> b, san_history |-> sh,
              outcome |-> [accepted |-> FALSE, reason |-> "parse_error",
                           parse_error |-> parsed.error]]
        ELSE IF parsed.move \notin b.legal_moves
        THEN [board |-> b, san_history |-> sh,
              outcome |-> [accepted |-> FALSE, reason |-> "illegal",
                           expected_turn |-> SideName(b.turn)]]
        ELSE [board |-> push(b, parsed.move), san_history |-> sh,
              outcome |-> [accepted |-> TRUE]]

\* add_move_uci() with the fault of recording the descriptor in the history
\* before the move is known to be legal: the property RejectionPurity must
\* detect it.
add_move_uci_recording_first(b, sh, uci) ==
    LET parsed == from_uci(uci)
    IN  IF ~parsed.ok
        THEN [board |-> b, san_history |-> sh,
              outcome |-> [accepted |-> FALSE, reason |-> "parse_error",
                           parse_error |-> parsed.error]]
        ELSE IF parsed.move \notin b.legal_moves
        THEN [board |-> b, san_history |-> Append(sh, uci),
              outcome |-> [accepted |-> FALSE, reason |-> "illegal",
                           expected_turn |-> SideName(b.turn)]]
        ELSE [board |-> push(b, parsed.move),
              san_history |-> Append(sh, san(b, parsed.move)),
              outcome |-> [accepted |-> TRUE]]

\* add_move_uci() with the fault of naming, for an illegal move, the side that
\* is not to move: the property IllegalRejection must detect it.
add_move_uci_wrong_turn(b, sh, uci) ==
    LET parsed == from_uci(uci)
    IN  IF ~parsed.ok
        THEN [board |-> b, san_history |-> sh,
              outcome |-> [accepted |-> FALSE, reason |-> "parse_error",
                           parse_error |-> parsed.error]]
        ELSE IF parsed.move \notin b.legal_moves
        THEN [board |-> b, san_history |-> sh,
              outcome |-> [accepted |-> FALSE, reason |-> "illegal",
                           expected_turn |-> SideName(~b.turn)]]
        ELSE [board |-> push(b, parsed.move),
              san_history |-> Append(sh, san(b, parsed.move)),
              outcome |-> [accepted |-> TRUE]]

\* add_move_uci() with the fault of rendering the notation after the move was
\* applied: the property SanFromPreMovePosition must detect it.
add_move_uci_rendering_late(b, sh, uci) ==
    LET parsed == from_uci(uci)
    IN  IF ~parsed.ok
        THEN [board |-> b, san_history |-> sh,
              outcome |-> [accepted |-> FALSE, reason |-> "parse_error",
                           parse_error |-> parsed.error]]
        ELSE IF parsed.move \notin b.legal_moves
        THEN [board |-> b, san_history |-> sh,
              outcome |-> [accepted |-> FALSE, reason |-> "illegal",
                           expected_turn |-> SideName(b.turn)]]
        ELSE [board |-> push(b, parsed.move),
              san_history |-> Append(sh, san(push(b, parsed.move), parsed.move)),
              outcome |-> [accepted |-> TRUE]]

\* add_move_uci() with the fault of inserting the notation at the front of
\* the history: the property HistoryAppendOnly must detect it.
add_move_uci_inserting_first(b, sh, uci) ==
    LET parsed == from_uci(uci)
    IN  IF ~parsed.ok
        THEN [board |-> b, san_history |-> sh,
              outcome |-> [accepted |-> FALSE, reason |-> "parse_error",
                           parse_error |-> parsed.error]]
        ELSE IF parsed.move \notin b.legal_moves
        THEN [board |-> b, san_history |-> sh,
              outcome |-> [accepted |-> FALSE, reason |-> "illegal",
                           expected_turn |-> SideName(b.turn)]]
        ELSE [board |-> push(b, parsed.move),
              san_history |-> <<san(b, parsed.move)>> \o sh,
              outcome |-> [accepted |-> TRUE]]

\* add_move_uci() with the fault of asking only whether the piece moves that
\* way, not whether the move leaves the king attacked: the property
\* NoLegalMoveFreezes must detect it.
add_move_uci_pseudo_legal(b, sh, uci) ==
    LET parsed == from_uci(uci)
    IN  IF ~parsed.ok
        THEN [board |-> b, san_history |-> sh,
              outcome |-> [accepted |-> FALSE, reason |-> "parse_error",
                           parse_error |-> parsed.error]]
        ELSE IF ~(MoveBool(parsed.move) /\ is_pseudo_legal(b, parsed.move))
        THEN [board |-> b, san_history |-> sh,
              outcome |-> [accepted |-> FALSE, reason |-> "illegal",
                           expected_turn |-> SideName(b.turn)]]
        ELSE [board |-> push(b, parsed.move),
              san_history |-> Append(sh, san(b, parsed.move)),
              outcome |-> [accepted |-> TRUE]]

\* GameState.add_move_uci(uci): the outcome it returns and the fields it leaves
add_move_uci(b, sh, uci) ==
    LET parsed == from_uci(uci)
    IN  IF ~parsed.ok
        THEN [board |-> b, san_history |-> sh,
              outcome |-> [accepted |-> FALSE, reason |-> "parse_error",
                           parse_error |-> parsed.error]]
        ELSE IF parsed.move \notin b.legal_moves
        THEN [board |-> b, san_history |-> sh,
              outcome |-> [accepted |-> FALSE, reason |-> "illegal",
                           expected_turn |-> SideName(b.turn)]]
        ELSE [board |-> push(b, parsed.move),
              san_history |-> Append(sh, san(b, parsed.move)),
              outcome |-> [accepted |-> TRUE]]

\* is_move_legal() with the fault of dropping the parse diagnostic: the
\* property IsLegalIsPure must detect it.
is_move_legal_without_diagnostic(b, uci) ==
    LET parsed == from_uci(uci)
    IN  IF ~parsed.ok
        THEN [legal |-> FALSE]
        ELSE [legal |-> parsed.move \in b.legal_moves]

\* is_move_legal() with the fault of comparing the parsed move with the
\* library's standard encodings of the legal moves: the property
\* LegalityAgreement must detect it.
is_move_legal_by_encoding(b, uci) ==
    LET parsed == from_uci(uci)
    IN  IF ~parsed.ok
        THEN [parse_error |-> parsed.error, legal |-> FALSE]
        ELSE [legal |-> /\ parsed.move \in b.legal_moves
                        /\ from_chess960(b, parsed.move) = parsed.move]

\* GameState.is_move_legal(uci)
is_move_legal(b, uci) ==
    LET parsed == from_uci(uci)
    IN  IF ~parsed.ok
        THEN [parse_error |-> parsed.error, legal |-> FALSE]
        ELSE [legal |-> parsed.move \in b.legal_moves]

\* all_moves() with the fault of missing the newest move: the property
\* AcceptedMoveEffects must detect it.
all_moves_stale(b) == [i \in 1 .. (Len(b.move_stack) - 1) |-> MoveUci(b.move_stack[i])]

\* GameState.all_moves()
all_moves(b) == [i \in 1 .. Len(b.move_stack) |-> MoveUci(b.move_stack[i])]

\* _format_move_detail() with the fault of numbering plies from 0: the
\* property ParityLaw must detect it.
format_move_detail_from_zero(idx, move, sh) ==
    [ply |-> idx,
     uci |-> MoveUci(move),
     san |-> IF idx < Len(sh) THEN Some(sh[idx + 1]) ELSE None,
     side |-> SideName(idx % 2 = 0)]

\* _format_move_detail(idx, move, san_history), idx counted from 0
format_move_detail(idx, move, sh) ==
    [ply |-> idx + 1,
     uci |-> MoveUci(move),
     san |-> IF idx < Len(sh) THEN Some(sh[idx + 1]) ELSE None,
     side |-> SideName(idx % 2 = 0)]

\* GameState.all_moves_detailed()
all_moves_detailed(b, sh) ==
    [i \in 1 .. Len(b.move_stack) |->
        [ply |-> (i - 1) + 1,
         uci |-> MoveUci(b.move_stack[i]),
         san |-> IF i - 1 < Len(sh) THEN Some(sh[(i - 1) + 1]) ELSE None,
         side |-> SideName((i - 1) % 2 = 0)]]

\* last_n_moves() with the fault of not guarding n <= 0: the property
\* LastMovesAreSuffix must detect it.
last_n_moves_unguarded(b, n) ==
    [i \in 1 .. Len(SliceFrom(b.move_stack, 0 - n)) |->
        MoveUci(SliceFrom(b.move_stack, 0 - n)[i])]

\* GameState.last_n_moves(n)
last_n_moves(b, n) ==
    IF n <= 0 THEN <<>>
    ELSE LET tail == SliceFrom(b.move_stack, 0 - n)
         IN  [i \in 1 .. Len(tail) |-> MoveUci(tail[i])]

\* GameState.last_n_moves_detailed(n)
last_n_moves_detailed(b, sh, n) ==
    IF n <= 0 THEN <<>>
    ELSE LET start == Max(0, Len(b.move_stack) - n)
         IN  [i \in 1 .. (Len(b.move_stack) - start) |->
                 [ply |-> (start + i - 1) + 1,
                  uci |-> MoveUci(b.move_stack[start + i]),
                  san |-> IF start + i - 1 < Len(sh) THEN Some(sh[start + i]) ELSE None,
                  side |-> SideName((start + i - 1) % 2 = 0)]]

\* GameState.ascii_board()
ascii_board(b) == board_str(b.pieces)

\* GameState.pieces_map(): square name -> piece symbol, occupied squares only
pieces_map(b) ==
    LET names == {<<file, rank>> : file \in 1 .. 8, rank \in 1 .. 8}
        occupied == {fr \in names : b.pieces[square(fr[1] - 1, fr[2] - 1)] # NoPiece}
    IN  [name \in {<<FILE_NAMES[fr[1]], RANK_NAMES[fr[2]]>> : fr \in occupied} |->
            piece_symbol(b.pieces[SQUARE_INDEX(name)])]

\* status() with the fault of deriving who_moved_last from the parity of the
\* move count instead of the last index: the property LastMoveMatchesHistory
\* must detect it.
status_mover_from_count(b, sh) ==
    LET parts == fen_parts(b)
        over == is_game_over(b)
    IN  [fen |-> parts,
         side_to_move |-> SideName(b.turn),
         fullmove_number |-> b.fullmove_number,
         halfmove_clock |-> b.halfmove_clock,
         ply_count |-> Len(b.move_stack),
         castling_rights |-> IF Len(parts) >= 3 THEN Some(parts[3]) ELSE None,
         en_passant_square |-> IF Len(parts) >= 4 THEN Some(parts[4]) ELSE None,
         last_move_uci |-> IF Len(b.move_stack) > 0
                           THEN Some(MoveUci(b.move_stack[Len(b.move_stack)])) ELSE None,
         last_move_san |-> IF Len(sh) > 0 THEN Some(sh[Len(sh)]) ELSE None,
         who_moved_last |-> IF Len(b.move_stack) > 0
                            THEN Some(SideName(Len(b.move_stack) % 2 = 0)) ELSE None,
         is_check |-> is_check(b),
         is_game_over |-> over,
         result |-> IF over THEN Some(result(b)) ELSE None,
         pieces |-> pieces_map(b)]

\* status() with the fault of computing the result of every position: the
\* property ResultIffGameOver must detect it.
status_result_always(b, sh) ==
    LET parts == fen_parts(b)
        over == is_game_over(b)
    IN  [fen |-> parts,
         side_to_move |-> SideName(b.turn),
         fullmove_number |-> b.fullmove_number,
         halfmove_clock |-> b.halfmove_clock,
         ply_count |-> Len(b.move_stack),
         castling_rights |-> IF Len(parts) >= 3 THEN Some(parts[3]) ELSE None,
         en_passant_square |-> IF Len(parts) >= 4 THEN Some(parts[4]) ELSE None,
         last_move_uci |-> IF Len(b.move_stack) > 0
                           THEN Some(MoveUci(b.move_stack[Len(b.move_stack)])) ELSE None,
         last_move_san |-> IF Len(sh) > 0 THEN Some(sh[Len(sh)]) ELSE None,
         who_moved_last |-> IF Len(b.move_stack) > 0
                            THEN Some(SideName((Len(b.move_stack) - 1) % 2 = 0)) ELSE None,
         is_check |-> is_check(b),
         is_game_over |-> over,
         result |-> Some(result(b)),
         pieces |-> pieces_map(b)]

\* GameState.status()
status(b, sh) ==
    LET parts == fen_parts(b)
        over == is_game_over(b)
    IN  [fen |-> parts,
         side_to_move |-> SideName(b.turn),
         fullmove_number |-> b.fullmove_number,
         halfmove_clock |-> b.halfmove_clock,
         ply_count |-> Len(b.move_stack),
         castling_rights |-> IF Len(parts) >= 3 THEN Some(parts[3]) ELSE None,
         en_passant_square |-> IF Len(parts) >= 4 THEN Some(parts[4]) ELSE None,
         last_move_uci |-> IF Len(b.move_stack) > 0
                           THEN Some(MoveUci(b.move_stack[Len(b.move_stack)])) ELSE None,
         last_move_san |-> IF Len(sh) > 0 THEN Some(sh[Len(sh)]) ELSE None,
         who_moved_last |-> IF Len(b.move_stack) > 0
                            THEN Some(SideName((Len(b.move_stack) - 1) % 2 = 0)) ELSE None,
         is_check |-> is_check(b),
         is_game_over |-> over,
         result |-> IF over THEN Some(result(b)) ELSE None,
         pieces |-> pieces_map(b)]

(* ---------------------------------------------------------------------- *)
(* The server: the one game _GAME and the tools                            *)
(* ---------------------------------------------------------------------- *)

VARIABLES
    board,        \* _GAME.board
    san_history,  \* _GAME.san_history
    op,           \* the tool invoked last ("new" before the first invocation)
    uci,          \* its descriptor argument (add_move, is_legal), else None
    n,            \* its count argument (last_moves, last_moves_detailed), else 0
    response,     \* what it returned
    supplied,     \* history variable: the descriptors accepted since the last reset
    ply_before,   \* history variable: len(board.move_stack) when the tool was invoked
    calls         \* per thread, the add_move it is in the middle of (used only
                  \* where invocations are delivered concurrently)

vars == <<board, san_history, op, uci, n, response, supplied, ply_before, calls>>

\* The threads on which invocations can arrive
Threads == {1, 2}

\* A thread that is in no add_move
NoCall == [pc |-> "idle", uci |-> None, san |-> None, outcome |-> None,
           based_on |-> 0, applied |-> FALSE]

\* Descriptors the caller supplies.  Moves are the moves of an opening that
\* ends in white castling short, written both as e1g1 and as e1h1, against a
\* black knight that goes out and back; the others parse but are never legal
\* (a promotion, a null move, a drop) or do not parse.
Moves ==
    {<<"e", "2", "e", "4">>, <<"g", "1", "f", "3">>, <<"f", "1", "c", "4">>,
     <<"e", "1", "g", "1">>, <<"e", "1", "h", "1">>,
     <<"b", "8", "c", "6">>, <<"c", "6", "b", "8">>}

Descriptors ==
    Moves \cup
    {<<"e", "7", "e", "8", "q">>, <<"0", "0", "0", "0">>, <<"q", "@", "e", "4">>,
     <<"z", "z", "9", "9">>, <<"e", "2", "e", "2">>, <<"e", "2">>, <<"e", "7", "e", "8", "x">>}

Counts == (0 - 1) .. MaxN

Init ==
    /\ board = StartingBoard
    /\ san_history = <<>>
    /\ op = "new"
    /\ uci = None
    /\ n = 0
    /\ response = None
    /\ supplied = <<>>
    /\ ply_before = 0
    /\ calls = [t \in Threads |-> NoCall]

\* create_or_reset_game(), game being _GAME after _GAME.reset()
CreateOrResetGameStep(game) ==
    /\ board' = game.board
    /\ san_history' = game.san_history
    /\ response' = [ok |-> TRUE,
                    status |-> status(game.board, game.san_history),
                    moves |-> all_moves(game.board),
                    moves_detailed |->
                        [i \in 1 .. Len(game.board.move_stack) |->
                            format_move_detail(i - 1, game.board.move_stack[i],
                                               game.san_history)]]
    /\ op' = "create_or_reset_game"
    /\ uci' = None
    /\ n' = 0
    /\ supplied' = <<>>
    /\ ply_before' = Len(board.move_stack)
    /\ UNCHANGED calls

CreateOrResetGame == CreateOrResetGameStep(reset(board, san_history))

\* get_status()
GetStatus ==
    /\ response' = status(board, san_history)
    /\ op' = "get_status"
    /\ uci' = None
    /\ n' = 0
    /\ ply_before' = Len(board.move_stack)
    /\ UNCHANGED <<board, san_history, supplied, calls>>

\* The response of add_move(uci), built from the outcome of add_move_uci and
\* the game it leaves
add_move_response(move_outcome, b, sh) ==
    [accepted |-> move_outcome.accepted, status |-> status(b, sh)]
    @@ (IF move_outcome.accepted
        THEN [moves |-> all_moves(b), moves_detailed |-> all_moves_detailed(b, sh)]
        ELSE (IF "reason" \in DOMAIN move_outcome
              THEN [reason |-> move_outcome.reason] ELSE <<>>)
             @@ (IF "expected_turn" \in DOMAIN move_outcome
                 THEN [expected_turn |-> move_outcome.expected_turn] ELSE <<>>))

\* add_move(uci), r being what _GAME.add_move_uci(uci) returns and leaves
AddMoveEffect(d, r) ==
    /\ board' = r.board
    /\ san_history' = r.san_history
    /\ response' = add_move_response(r.outcome, r.board, r.san_history)
    /\ op' = "add_move"
    /\ uci' = d
    /\ n' = 0
    /\ supplied' = IF r.outcome.accepted THEN Append(supplied, d) ELSE supplied
    /\ ply_before' = Len(board.move_stack)
    /\ UNCHANGED calls

\* add_move(uci) in a game that is followed for MaxPly moves
AddMoveStep(d, r) ==
    /\ r.outcome.accepted => Len(board.move_stack) < MaxPly
    /\ AddMoveEffect(d, r)

AddMove(d) == AddMoveStep(d, add_move_uci(board, san_history, d))

\* is_legal(uci)
IsLegal(d) ==
    /\ response' = is_move_legal(board, d)
    /\ op' = "is_legal"
    /\ uci' = d
    /\ n' = 0
    /\ ply_before' = Len(board.move_stack)
    /\ UNCHANGED <<board, san_history, supplied, calls>>

\* list_moves()
ListMoves ==
    /\ response' = all_moves(board)
    /\ op' = "list_moves"
    /\ uci' = None
    /\ n' = 0
    /\ ply_before' = Len(board.move_stack)
    /\ UNCHANGED <<board, san_history, supplied, calls>>

\* list_moves_detailed()
ListMovesDetailed ==
    /\ response' = [i \in 1 .. Len(board.move_stack) |->
                       format_move_detail(i - 1, board.move_stack[i], san_history)]
    /\ op' = "list_moves_detailed"
    /\ uci' = None
    /\ n' = 0
    /\ ply_before' = Len(board.move_stack)
    /\ UNCHANGED <<board, san_history, supplied, calls>>

\* last_moves(n) with the fault of taking the moves off the position's move
\* stack while collecting them: the property ReadOnlyQueries must detect it.
LastMovesPopping(k) ==
    /\ response' = last_n_moves(board, k)
    /\ board' = [board EXCEPT !.move_stack =
                    SubSeq(board.move_stack, 1,
                           Len(board.move_stack) - Len(last_n_moves(board, k)))]
    /\ op' = "last_moves"
    /\ uci' = None
    /\ n' = k
    /\ ply_before' = Len(board.move_stack)
    /\ UNCHANGED <<san_history, supplied, calls>>

\* last_moves(n)
LastMoves(k) ==
    /\ response' = last_n_moves(board, k)
    /\ op' = "last_moves"
    /\ uci' = None
    /\ n' = k
    /\ ply_before' = Len(board.move_stack)
    /\ UNCHANGED <<board, san_history, supplied, calls>>

\* last_moves_detailed(n): the tool builds the list itself
last_moves_detailed(b, sh, k) ==
    IF k <= 0 THEN <<>>
    ELSE LET start == Max(0, Len(b.move_stack) - k)
         IN  [i \in 1 .. (Len(b.move_stack) - start) |->
                 format_move_detail(start + i - 1, b.move_stack[start + i], sh)]

LastMovesDetailed(k) ==
    /\ response' = last_moves_detailed(board, san_history, k)
    /\ op' = "last_moves_detailed"
    /\ uci' = None
    /\ n' = k
    /\ ply_before' = Len(board.move_stack)
    /\ UNCHANGED <<board, san_history, supplied, calls>>

\* board_ascii()
BoardAscii ==
    /\ response' = ascii_board(board)
    /\ op' = "board_ascii"
    /\ uci' = None
    /\ n' = 0
    /\ ply_before' = Len(board.move_stack)
    /\ UNCHANGED <<board, san_history, supplied, calls>>

Next ==
    \/ CreateOrResetGame
    \/ GetStatus
    \/ \E d \in Descriptors : AddMove(d)
    \/ \E d \in Descriptors : IsLegal(d)
    \/ ListMoves
    \/ ListMovesDetailed
    \/ \E k \in Counts : LastMoves(k)
    \/ \E k \in Counts : LastMovesDetailed(k)
    \/ BoardAscii

Spec == Init /\ [][Next]_vars

(* ---------------------------------------------------------------------- *)
(* Games played to their end                                               *)
(*                                                                         *)
(* The caller plays one of two lines: the shortest checkmate (1. f3 e5     *)
(* 2. g4 Qh4#, white's moves in any order, with the king's step to f2      *)
(* that the mated side has left to try), or both king's knights            *)
(* going out and back until the starting position has occurred five times  *)
(* and beyond.  The tools are the same.                                    *)
(* ---------------------------------------------------------------------- *)

MateLine ==
    {<<"f", "2", "f", "3">>, <<"e", "7", "e", "5">>, <<"g", "2", "g", "4">>,
     <<"d", "8", "h", "4">>, <<"e", "1", "f", "2">>}

ShuffleLine ==
    {<<"g", "1", "f", "3">>, <<"g", "8", "f", "6">>, <<"f", "3", "g", "1">>,
     <<"f", "6", "g", "8">>}

EndingDescriptors == MateLine \cup ShuffleLine \cup {<<"z", "z", "9", "9">>}

\* The descriptor d continues the line of the moves accepted so far
SameLine(d) ==
    \A line \in {MateLine, ShuffleLine} :
        d \in line => \A i \in 1 .. Len(supplied) : supplied[i] \in line

\* add_move(uci) in a game played to its end
AddMoveEndingStep(d, r) ==
    /\ SameLine(d)
    /\ r.outcome.accepted => Len(board.move_stack) < MaxEndingPly
    /\ AddMoveEffect(d, r)

AddMoveEnding(d) == AddMoveEndingStep(d, add_move_uci(board, san_history, d))

NextEndings ==
    \/ CreateOrResetGame
    \/ GetStatus
    \/ \E d \in EndingDescriptors : AddMoveEnding(d)
    \/ \E d \in EndingDescriptors : IsLegal(d)
    \/ ListMoves
    \/ ListMovesDetailed
    \/ \E k \in Counts : LastMoves(k)
    \/ \E k \in Counts : LastMovesDetailed(k)
    \/ BoardAscii

SpecEndings == Init /\ [][NextEndings]_vars

(* ---------------------------------------------------------------------- *)
(* Invocations delivered concurrently                                      *)
(*                                                                         *)
(* _GAME is a module global and neither GameState nor the tools take a     *)
(* lock.  When add_move runs on several threads at once, the statements    *)
(* of add_move_uci of one thread interleave with the statements and the    *)
(* reads of the others.  Each statement is taken as one step.  Each        *)
(* thread moves pieces of its own, so that a move that passed the check    *)
(* still finds its piece when it is pushed.                                *)
(* ---------------------------------------------------------------------- *)

ThreadMoves ==
    (1 :> {<<"e", "2", "e", "4">>, <<"b", "8", "c", "6">>}) @@
    (2 :> {<<"g", "1", "f", "3">>})

\* The move that thread t is adding (line 27)
CallMove(t) == from_uci(calls[t].uci).move

\* add_move(uci) is invoked on thread t: lines 26-33, the descriptor parses
Invoke(t, d) ==
    /\ calls[t].pc = "idle"
    /\ from_uci(d).ok
    /\ calls' = [calls EXCEPT ![t] = [NoCall EXCEPT !.pc = "check", !.uci = d]]
    /\ UNCHANGED <<board, san_history, op, uci, n, response, supplied, ply_before>>

\* line 34: if move not in self.board.legal_moves, and lines 35-39
Check(t) ==
    /\ calls[t].pc = "check"
    /\ calls' = [calls EXCEPT ![t] =
                    IF CallMove(t) \in board.legal_moves
                    THEN [@ EXCEPT !.pc = "san",
                                   !.based_on = Len(board.move_stack)]
                    ELSE [@ EXCEPT !.pc = "respond",
                                   !.based_on = Len(board.move_stack),
                                   !.outcome = [accepted |-> FALSE,
                                                reason |-> "illegal",
                                                expected_turn |-> SideName(board.turn)]]]
    /\ UNCHANGED <<board, san_history, op, uci, n, response, supplied, ply_before>>

\* line 40: san = self.board.san(move)
RenderSan(t) ==
    /\ calls[t].pc = "san"
    /\ calls' = [calls EXCEPT ![t].pc = "push", ![t].san = san(board, CallMove(t))]
    /\ UNCHANGED <<board, san_history, op, uci, n, response, supplied, ply_before>>

\* line 41: self.board.push(move)
PushMove(t) ==
    /\ calls[t].pc = "push"
    /\ board' = push(board, CallMove(t))
    /\ supplied' = Append(supplied, calls[t].uci)
    /\ calls' = [calls EXCEPT ![t].pc = "append", ![t].applied = TRUE]
    /\ UNCHANGED <<san_history, op, uci, n, response, ply_before>>

\* lines 42-43: self.san_history.append(san); return {"accepted": True}
AppendSan(t) ==
    /\ calls[t].pc = "append"
    /\ san_history' = Append(san_history, calls[t].san)
    /\ calls' = [calls EXCEPT ![t].pc = "respond", ![t].outcome = [accepted |-> TRUE]]
    /\ UNCHANGED <<board, op, uci, n, response, supplied, ply_before>>

\* add_move lines 198-209: the response is built from the game as it is now
Respond(t) ==
    /\ calls[t].pc = "respond"
    /\ response' = add_move_response(calls[t].outcome, board, san_history)
    /\ op' = "add_move"
    /\ uci' = calls[t].uci
    /\ n' = 0
    /\ ply_before' = calls[t].based_on
    /\ calls' = [calls EXCEPT ![t].pc = "idle"]
    /\ UNCHANGED <<board, san_history, supplied>>

NextConcurrent ==
    \/ \E t \in Threads : \E d \in ThreadMoves[t] : Invoke(t, d)
    \/ \E t \in Threads : Check(t)
    \/ \E t \in Threads : RenderSan(t)
    \/ \E t \in Threads : PushMove(t)
    \/ \E t \in Threads : AppendSan(t)
    \/ \E t \in Threads : Respond(t)
    \/ GetStatus
    \/ ListMovesDetailed

SpecConcurrent == Init /\ [][NextConcurrent]_vars

(* ---------------------------------------------------------------------- *)
(* Properties                                                              *)
(* ---------------------------------------------------------------------- *)

\* The descriptor d fails to parse
FailsParsing(d) == ~from_uci(d).ok

\* The descriptor d parses to a move that is not legal in position b
ParsesIllegal(b, d) == from_uci(d).ok /\ ~is_legal(b, from_uci(d).move)

\* The descriptor d parses to a move that is legal in position b
ParsesLegal(b, d) == from_uci(d).ok /\ is_legal(b, from_uci(d).move)

\* The descriptor of the move that the legal descriptor d names in position
\* b, in the library's standard form: d itself, except that castling written
\* as the king going to its rook's square is the king's two-square move.
StandardForm(b, d) ==
    IF /\ Len(d) = 4
       /\ piece_type(b.pieces[SQUARE_INDEX(<<d[1], d[2]>>)]) = KING
       /\ b.pieces[SQUARE_INDEX(<<d[3], d[4]>>)] = Colored(ROOK, b.turn)
    THEN <<d[1], d[2], IF d[3] = "h" THEN "g" ELSE "c", d[4]>>
    ELSE d

\* C1: in every reachable state the notation history is as long as the
\* position's move stack, and both are as long as the list of moves accepted
\* since the last reset; status.ply_count and the length of list_moves report
\* that number, in the state and in the response of the last tool.
HistoryLengthInvariant ==
    /\ Len(san_history) = Len(board.move_stack)
    /\ Len(board.move_stack) = Len(supplied)
    /\ status(board, san_history).ply_count = Len(supplied)
    /\ Len(all_moves(board)) = Len(supplied)
    /\ op = "get_status" => response.ply_count = Len(supplied)
    /\ op = "list_moves" => Len(response) = Len(supplied)
    /\ op \in {"add_move", "create_or_reset_game"} => response.status.ply_count = Len(supplied)

\* C1 happens: a move is rejected after three moves were accepted.
HistoryLengthWitness ==
    op = "add_move" /\ ~response.accepted /\ Len(supplied) = 3 /\ Len(san_history) = 3

\* C2: an add_move whose descriptor fails parsing or is not legal leaves the
\* position and the history unchanged, so status, all_moves and
\* all_moves_detailed are what they were, and it returns a result with
\* accepted false, a reason and the unchanged status.
RejectionPurity ==
    [][(op' = "add_move" /\ (FailsParsing(uci') \/ ParsesIllegal(board, uci'))) =>
          /\ board' = board
          /\ san_history' = san_history
          /\ status(board', san_history') = status(board, san_history)
          /\ all_moves(board') = all_moves(board)
          /\ all_moves_detailed(board', san_history') = all_moves_detailed(board, san_history)
          /\ response'.accepted = FALSE
          /\ "reason" \in DOMAIN response'
          /\ response'.reason \in {"parse_error", "illegal"}
          /\ response'.status = status(board, san_history)]_vars

\* C2 happens: a descriptor that does not parse is rejected in a game with
\* two moves played.
RejectionPurityWitness ==
    /\ op = "add_move"
    /\ FailsParsing(uci)
    /\ ~response.accepted
    /\ Len(san_history) = 2

\* C3: an add_move whose descriptor is legal is accepted, the history grows by
\* one record whose ply is the previous length plus one, the side to move
\* flips, and the response carries the new state: last_move_uci and the last
\* of moves are the move played, ply_count is one more than before.
AcceptedMoveEffects ==
    [][(op' = "add_move" /\ ParsesLegal(board, uci')) =>
          /\ response'.accepted = TRUE
          /\ Len(san_history') = Len(san_history) + 1
          /\ SubSeq(san_history', 1, Len(san_history)) = san_history
          /\ Len(response'.moves_detailed) = Len(san_history) + 1
          /\ SubSeq(response'.moves_detailed, 1, Len(san_history))
                = all_moves_detailed(board, san_history)
          /\ response'.moves_detailed[Len(san_history) + 1].ply = Len(san_history) + 1
          /\ board'.turn = ~board.turn
          /\ response'.status.side_to_move # status(board, san_history).side_to_move
          /\ response'.status.last_move_uci = Some(StandardForm(board, uci'))
          /\ Len(response'.moves) = Len(board.move_stack) + 1
          /\ response'.moves[Len(response'.moves)] = StandardForm(board, uci')
          /\ response'.status.ply_count = status(board, san_history).ply_count + 1
          /\ response'.status = status(board', san_history')]_vars

\* C3 happens: black's knight move is accepted as the fourth move.
AcceptedMoveWitness ==
    /\ op = "add_move"
    /\ response.accepted
    /\ response.status.ply_count = 4
    /\ response.status.side_to_move = "white"
    /\ response.status.last_move_san = Some(<<"N", "b", "8">>)

\* C4: an add_move whose descriptor parses to a move that is not legal returns
\* accepted false, reason "illegal" and, as expected_turn, the side to move,
\* which is also status.side_to_move of the same response.
IllegalRejection ==
    [][(op' = "add_move" /\ ParsesIllegal(board, uci')) =>
          /\ response'.accepted = FALSE
          /\ "reason" \in DOMAIN response'
          /\ response'.reason = "illegal"
          /\ "expected_turn" \in DOMAIN response'
          /\ response'.expected_turn = (IF board.turn = WHITE THEN "white" ELSE "black")
          /\ response'.expected_turn = response'.status.side_to_move]_vars

\* C4 happens: a move of white is rejected as illegal when black is to move.
IllegalRejectionWitness ==
    /\ op = "add_move"
    /\ uci = <<"g", "1", "f", "3">>
    /\ "expected_turn" \in DOMAIN response
    /\ response.reason = "illegal"
    /\ response.expected_turn = "black"

\* C5: for a descriptor that fails to parse, add_move_uci returns a rejection
\* of kind parse_error with the diagnostic text, and the add_move tool returns
\* that kind and that text to the caller.
ParseErrorCarriesDiagnostic ==
    (op = "add_move" /\ FailsParsing(uci)) =>
        /\ add_move_uci(board, san_history, uci).outcome.reason = "parse_error"
        /\ Len(add_move_uci(board, san_history, uci).outcome.parse_error) > 0
        /\ response.accepted = FALSE
        /\ "reason" \in DOMAIN response
        /\ response.reason = "parse_error"
        /\ "parse_error" \in DOMAIN response
        /\ response.parse_error = add_move_uci(board, san_history, uci).outcome.parse_error

\* C6: create_or_reset_game returns ok with white to move, ply count 0, empty
\* moves and moves_detailed and no last move, whatever the game was before,
\* and leaves the game of a fresh GameState; a second reset changes nothing.
ResetYieldsInitialGame ==
    /\ op = "create_or_reset_game" =>
          /\ response.ok = TRUE
          /\ response.status.side_to_move = "white"
          /\ response.status.ply_count = 0
          /\ response.moves = <<>>
          /\ response.moves_detailed = <<>>
          /\ response.status.last_move_uci = None
          /\ response.status.last_move_san = None
          /\ response.status.who_moved_last = None
          /\ board = StartingBoard
          /\ san_history = <<>>
    /\ reset(reset(board, san_history).board, reset(board, san_history).san_history)
          = reset(board, san_history)
    /\ reset(board, san_history) = [board |-> StartingBoard, san_history |-> <<>>]

\* C6 happens: a game with four moves played is reset.
ResetWitness == op = "create_or_reset_game" /\ ply_before = 4

\* C7: is_legal leaves the position and the history unchanged; for a
\* descriptor that fails to parse it returns legal false with a non-empty
\* parse_error, otherwise exactly whether the parsed move is legal.
IsLegalIsPure ==
    [][op' = "is_legal" =>
          /\ board' = board
          /\ san_history' = san_history
          /\ IF FailsParsing(uci')
             THEN /\ response'.legal = FALSE
                  /\ "parse_error" \in DOMAIN response'
                  /\ response'.parse_error # <<>>
                  /\ response'.parse_error[1] # ""
             ELSE response' = [legal |-> is_legal(board, from_uci(uci').move)]]_vars

\* C7 happens: after two moves, is_legal is asked about a descriptor that
\* does not parse.
IsLegalWitness ==
    /\ op = "is_legal"
    /\ uci = <<"z", "z", "9", "9">>
    /\ "parse_error" \in DOMAIN response
    /\ Len(san_history) = 2

\* The last k entries of seq
Suffix(seq, k) == SubSeq(seq, Len(seq) - k + 1, Len(seq))

\* What last_moves(k) and last_moves_detailed(k) are to return of the full
\* history: nothing for k <= 0, else its last min(k, L) entries
LastOf(history, k) == IF k <= 0 THEN <<>> ELSE Suffix(history, Min(k, Len(history)))

\* C8: last_moves(n) and last_moves_detailed(n) return the empty sequence for
\* n <= 0 and the last min(n, L) entries of the history of length L, in play
\* order, for n > 0: the whole history when n >= L.
LastMovesAreSuffix ==
    /\ op = "last_moves" =>
          /\ response = LastOf(all_moves(board), n)
          /\ n >= Len(san_history) /\ n > 0 => response = all_moves(board)
    /\ op = "last_moves_detailed" =>
          /\ response = LastOf(all_moves_detailed(board, san_history), n)
          /\ n >= Len(san_history) /\ n > 0 => response = all_moves_detailed(board, san_history)
    /\ \A k \in Counts :
          /\ last_n_moves(board, k) = LastOf(all_moves(board), k)
          /\ last_n_moves_detailed(board, san_history, k)
                = LastOf(all_moves_detailed(board, san_history), k)

\* C8 happens: the last two of five moves are asked for.
LastMovesWitness ==
    op = "last_moves" /\ n = 2 /\ Len(san_history) = 5 /\ Len(response) = 2

\* The records are those of the history indices offset, offset + 1, ...
\* (0-based), with the ply and the side of the parity law
Parity(records, offset) ==
    \A i \in 1 .. Len(records) :
        /\ records[i].ply = offset + i
        /\ records[i].side \in {"white", "black"}
        /\ records[i].side = "white" <=> (offset + i - 1) % 2 = 0

\* C9: in every detailed view the record at 0-based history index i has
\* ply i + 1 and side "white" exactly when i is even.
ParityLaw ==
    /\ Parity(all_moves_detailed(board, san_history), 0)
    /\ Len(all_moves_detailed(board, san_history)) = Len(san_history)
    /\ op = "list_moves_detailed" => Parity(response, 0) /\ Len(response) = Len(san_history)
    /\ op = "last_moves_detailed" => Parity(response, Len(san_history) - Len(response))
    /\ op = "add_move" /\ response.accepted =>
          Parity(response.moves_detailed, 0) /\ Len(response.moves_detailed) = Len(san_history)
    /\ op = "create_or_reset_game" => Parity(response.moves_detailed, 0)
    /\ \A k \in Counts :
          Parity(last_n_moves_detailed(board, san_history, k),
                 Len(san_history) - Len(last_n_moves_detailed(board, san_history, k)))

\* C9 happens: the last three records of a history of four are listed.
ParityWitness ==
    /\ op = "last_moves_detailed"
    /\ Len(san_history) = 4
    /\ Len(response) = 3
    /\ response[1].side = "black"

\* The move of notation move_san is castling
IsCastlingSan(move_san) == Len(move_san) >= 3 /\ SubSeq(move_san, 1, 3) = <<"O", "-", "O">>

\* What is reported for the accepted descriptor d whose move has the
\* notation move_san: d itself, except that castling written as the king
\* going to its rook's square (e1h1, e1a1, e8h8, e8a8) is reported as the
\* king's two-square move (e1g1, e1c1, e8g8, e8c8).
Reported(d, move_san) ==
    IF IsCastlingSan(move_san) /\ d[3] \in {"a", "h"}
    THEN <<d[1], d[2], IF d[3] = "h" THEN "g" ELSE "c", d[4]>>
    ELSE d

\* The descriptors reported for the accepted descriptors
ReportedHistory == [i \in 1 .. Len(supplied) |-> Reported(supplied[i], san_history[i])]

ListMovesDetailedView ==
    [i \in 1 .. Len(board.move_stack) |->
        format_move_detail(i - 1, board.move_stack[i], san_history)]

\* The last-move fields of the status st are absent when there are no
\* records, and are the uci, san and side of the last record otherwise.
LastMoveFields(st, records) ==
    IF records = <<>>
    THEN st.last_move_uci = None /\ st.last_move_san = None /\ st.who_moved_last = None
    ELSE /\ st.last_move_uci = Some(records[Len(records)].uci)
         /\ st.last_move_san = records[Len(records)].san
         /\ st.last_move_san # None
         /\ st.who_moved_last = Some(records[Len(records)].side)

\* C11: status.last_move_uci, last_move_san and who_moved_last are absent
\* exactly when the history is empty, and otherwise are the uci, san and side
\* of the last record of list_moves_detailed; for the status of the state and
\* for the status a tool returned.
LastMoveMatchesHistory ==
    /\ (ListMovesDetailedView = <<>>) <=> (san_history = <<>>)
    /\ LastMoveFields(status(board, san_history), ListMovesDetailedView)
    /\ op = "get_status" => LastMoveFields(response, ListMovesDetailedView)
    /\ op = "list_moves_detailed" => LastMoveFields(status(board, san_history), response)
    /\ op = "create_or_reset_game" => LastMoveFields(response.status, response.moves_detailed)
    /\ op = "add_move" =>
          LastMoveFields(response.status,
                         IF response.accepted THEN response.moves_detailed
                         ELSE ListMovesDetailedView)

\* C11 happens: get_status after white's second move reports it as the last.
LastMoveWitness ==
    /\ op = "get_status"
    /\ Len(san_history) = 3
    /\ response.last_move_san = Some(<<"N", "f", "3">>)
    /\ response.who_moved_last = Some("white")

\* The tools that only read the game
ReadOnlyTools ==
    {"get_status", "list_moves", "list_moves_detailed", "last_moves", "last_moves_detailed",
     "board_ascii"}

\* C13: get_status, list_moves, list_moves_detailed, last_moves,
\* last_moves_detailed and board_ascii leave the position and the history
\* unchanged, and the same one invoked again with the same argument, right
\* after itself, returns an equal result.
ReadOnlyQueries ==
    [][op' \in ReadOnlyTools =>
          /\ board' = board
          /\ san_history' = san_history
          /\ (op = op' /\ n = n') => response' = response]_vars

\* C13 happens: the board is drawn after five moves.
ReadOnlyWitness ==
    /\ op = "board_ascii"
    /\ Len(board.move_stack) = 5
    /\ response = ascii_board(board)

\* C14: the notation stored for an accepted move is its rendering in the
\* position before the move, and it is what status.last_move_san and the
\* detailed views report for that move, in the response and afterwards.
SanFromPreMovePosition ==
    [][/\ (op' = "add_move" /\ response'.accepted) =>
             /\ san_history' = Append(san_history, san(board, from_uci(uci').move))
             /\ response'.status.last_move_san = Some(san(board, from_uci(uci').move))
             /\ response'.moves_detailed[Len(response'.moves_detailed)].san
                   = Some(san(board, from_uci(uci').move))
       /\ \A i \in 1 .. Len(san_history') :
             /\ all_moves_detailed(board', san_history')[i].san = Some(san_history'[i])
             /\ format_move_detail(i - 1, board'.move_stack[i], san_history').san
                   = Some(san_history'[i])
       /\ op' = "list_moves_detailed" =>
             \A i \in 1 .. Len(response') : response'[i].san = Some(san_history'[i])
       /\ op' = "get_status" /\ san_history' # <<>> =>
             response'.last_move_san = Some(san_history'[Len(san_history')])]_vars

\* C14 happens: the bishop's move, rendered with the bishop still on f1, is
\* the last notation of an accepted move.
SanWitness ==
    /\ op = "add_move"
    /\ response.accepted
    /\ uci = <<"f", "1", "c", "4">>
    /\ san_history[Len(san_history)] = <<"B", "c", "4">>
    /\ board.pieces[F1] = NoPiece

\* The records of the history: ply, uci, san and side of every move played
Records(b, sh) == all_moves_detailed(b, sh)

\* C15: every step other than create_or_reset_game keeps the records there
\* are, unchanged and in place; an accepted add_move adds exactly one record
\* at the end; only create_or_reset_game removes records.
HistoryAppendOnly ==
    [][/\ op' # "create_or_reset_game" =>
             /\ Len(Records(board', san_history')) >= Len(Records(board, san_history))
             /\ SubSeq(Records(board', san_history'), 1, Len(Records(board, san_history)))
                   = Records(board, san_history)
             /\ SubSeq(san_history', 1, Len(san_history)) = san_history
       /\ (op' = "add_move" /\ response'.accepted) =>
             /\ Len(Records(board', san_history')) = Len(Records(board, san_history)) + 1
             /\ Len(san_history') = Len(san_history) + 1
       /\ (op' = "add_move" /\ ~response'.accepted) =>
             Records(board', san_history') = Records(board, san_history)
       /\ Len(Records(board', san_history')) < Len(Records(board, san_history)) =>
             op' = "create_or_reset_game"]_vars

\* C15 happens: a sixth record was added to five.
AppendOnlyWitness ==
    /\ op = "add_move"
    /\ response.accepted
    /\ ply_before = 5
    /\ Len(Records(board, san_history)) = 6

\* The status st has the parity of the position and of the history agree
StatusParity(st) ==
    /\ st.side_to_move \in {"white", "black"}
    /\ st.side_to_move = "white" <=> st.ply_count % 2 = 0
    /\ st.ply_count > 0 =>
          /\ st.who_moved_last \in {Some("white"), Some("black")}
          /\ st.who_moved_last # Some(st.side_to_move)

\* C17: status.side_to_move is "white" exactly when status.ply_count is even,
\* and with a non-empty history status.who_moved_last is the other side; for
\* the status of the state and for the status a tool returned.
PositionParity ==
    /\ StatusParity(status(board, san_history))
    /\ (board.turn = WHITE) <=> (Len(san_history) % 2 = 0)
    /\ op = "get_status" => StatusParity(response)
    /\ op \in {"add_move", "create_or_reset_game"} => StatusParity(response.status)

\* C17 happens: after five moves black is to move and white moved last.
PositionParityWitness ==
    /\ op = "get_status"
    /\ response.ply_count = 5
    /\ response.side_to_move = "black"
    /\ response.who_moved_last = Some("white")

\* The result query of is_legal(d), the outcome added of add_move_uci(d) and
\* the result tool of add_move(d) agree
Agree(query, added, tool) ==
    /\ query.legal <=> added.outcome.accepted
    /\ query.legal <=> tool.accepted
    /\ ("parse_error" \in DOMAIN query)
          <=> (~added.outcome.accepted /\ added.outcome.reason = "parse_error")
    /\ ("parse_error" \in DOMAIN query)
          <=> (~tool.accepted /\ "reason" \in DOMAIN tool /\ tool.reason = "parse_error")

\* add_move(d) in the current state: what add_move_uci(d) returns and leaves,
\* and the result of the tool
AgreeWith(query, added) ==
    Agree(query, added, add_move_response(added.outcome, added.board, added.san_history))

\* C18: in every state and for every descriptor d, is_legal(d) reports legal
\* exactly when add_move(d) invoked in that state is accepted, and reports a
\* parse_error exactly when add_move(d) is rejected with reason parse_error.
LegalityAgreement ==
    \A d \in Descriptors :
        AgreeWith(is_move_legal(board, d), add_move_uci(board, san_history, d))

\* C18 happens: castling written as e1h1 is reported legal where add_move
\* accepts it.
LegalityAgreementWitness ==
    /\ op = "is_legal"
    /\ uci = <<"e", "1", "h", "1">>
    /\ response.legal
    /\ add_move_uci(board, san_history, uci).outcome.accepted

\* Every record of the list has a notation
AllHaveSan(records) ==
    \A i \in 1 .. Len(records) : records[i].san # None /\ records[i].san[1] # <<>>

\* C19: every record of list_moves_detailed, last_moves_detailed and of the
\* moves_detailed of add_move has a notation: no record has an index past the
\* end of san_history.
SanNeverAbsent ==
    /\ Len(board.move_stack) <= Len(san_history)
    /\ AllHaveSan(ListMovesDetailedView)
    /\ AllHaveSan(all_moves_detailed(board, san_history))
    /\ \A k \in Counts :
          /\ AllHaveSan(last_moves_detailed(board, san_history, k))
          /\ AllHaveSan(last_n_moves_detailed(board, san_history, k))
    /\ op \in {"list_moves_detailed", "last_moves_detailed"} => AllHaveSan(response)
    /\ op = "add_move" /\ response.accepted => AllHaveSan(response.moves_detailed)

\* C19 happens: the last three of seven records are listed, castling last.
SanNeverAbsentWitness ==
    /\ op = "last_moves_detailed"
    /\ Len(response) = 3
    /\ response[3].ply = 7
    /\ response[3].san = Some(<<"O", "-", "O">>)

\* The status st carries a result exactly when it says the game is over
ResultWhenOver(st) ==
    /\ st.is_game_over \in BOOLEAN
    /\ st.is_game_over <=> st.result # None
    /\ st.result \in {None, Some("1-0"), Some("0-1"), Some("1/2-1/2")}

\* C16: status.result is present exactly when status.is_game_over is true, and
\* is then one of "1-0", "0-1", "1/2-1/2"; for the status of the state, where
\* is_game_over is what the rules say of the position, and for the status a
\* tool returned.
ResultIffGameOver ==
    /\ ResultWhenOver(status(board, san_history))
    /\ status(board, san_history).is_game_over = is_game_over(board)
    /\ op = "get_status" => ResultWhenOver(response)
    /\ op \in {"add_move", "create_or_reset_game"} => ResultWhenOver(response.status)

\* C16 happens: get_status after 1. f3 e5 2. g4 Qh4# reports the game over and
\* won by black, and get_status before it reported no result.
ResultWitness ==
    /\ op = "get_status"
    /\ response.ply_count = 4
    /\ response.is_game_over
    /\ response.is_check
    /\ response.result = Some("0-1")

\* The step is not a reset, leaves position and history as they are, and
\* rejects if it is an add_move
Frozen ==
    /\ board' = board
    /\ san_history' = san_history
    /\ op' = "add_move" => ~response'.accepted

\* C20, as claimed: once the status says the game is over, every add_move is
\* rejected and position and history stay as they are until
\* create_or_reset_game.
GameOverFreezes ==
    [][(status(board, san_history).is_game_over /\ op' # "create_or_reset_game")
          => Frozen]_vars

\* C20, amended: once the status says the game is over and the side to move
\* has no legal move (checkmate, stalemate), every add_move is rejected and
\* position and history stay as they are until create_or_reset_game; in a game
\* that is over, add_move accepts exactly the descriptors of legal moves.
NoLegalMoveFreezes ==
    [][status(board, san_history).is_game_over =>
          /\ (board.legal_moves = {} /\ op' # "create_or_reset_game") => Frozen
          /\ op' = "add_move" => (response'.accepted <=> ParsesLegal(board, uci'))]_vars

\* C20 happens: after 1. f3 e5 2. g4 Qh4# the status says the game is over,
\* and the add_move of the king's step to f2 has been rejected as illegal.
NoLegalMoveWitness ==
    /\ op = "add_move"
    /\ uci = <<"e", "1", "f", "2">>
    /\ ~response.accepted
    /\ response.reason = "illegal"
    /\ ply_before = 4
    /\ Len(board.move_stack) = 4
    /\ response.status.is_game_over
    /\ response.status.result = Some("0-1")
    /\ board.legal_moves = {}

\* C12: where invocations are delivered concurrently, every operation is one
\* critical section: no reader is handed a position whose move count differs
\* from the length of the history (every move that list_moves_detailed lists
\* has its notation, and get_status names the last move in both forms or in
\* neither), and no two add_move calls both apply their move after checking
\* it against the same position.
SingleCriticalSection ==
    /\ op = "list_moves_detailed" => AllHaveSan(response)
    /\ op = "get_status" =>
          (response.last_move_uci = None <=> response.last_move_san = None)
    /\ op = "add_move" /\ response.accepted =>
          Len(response.moves) = Len(response.moves_detailed)
             /\ AllHaveSan(response.moves_detailed)
    /\ \A t1, t2 \in Threads :
          (t1 # t2 /\ calls[t1].applied /\ calls[t2].applied)
             => calls[t1].based_on # calls[t2].based_on

====
